---- MODULE Spec2Model ----
(***************************************************************************)
(* Model of the fluent-note-taker backend: the upload endpoint, the        *)
(* background task process_audio_task (transcribe -> process_transcript -> *)
(* save_processed_data), the sqlite3 storage service with its FTS5 index   *)
(* and triggers, and the read endpoints of the meetings router.            *)
(*                                                                         *)
(* A text (Python str) is a sequence of tokens; an f-string is the         *)
(* concatenation of its literal part and the formatted value.              *)
(***************************************************************************)
EXTENDS Integers, Sequences, FiniteSets, TLC

\* ---------------------------------------------------------------- bounds
MaxRetries == 1     \* calls of process_audio_task for a job id that has run before
MaxLen == 2         \* length of a summary string returned by the LLM
MaxItems == 1       \* length of a list returned by a bullet-point chain
MaxReply == 5                           \* characters of an LLM reply to a list prompt

\* ------------------------------------------------------------ input sets
Jobs == {"j1", "j2"}                    \* uuid4 values handed out by upload_audio
ALLOWED_EXTENSIONS == {".wav", ".mp3", ".m4a"}
Extensions == {".wav", ".WAV", ".txt"}  \* extensions of the files submitted
Texts == {<<"alpha">>}                  \* texts the Whisper model may return
ProviderErrors == {<<"timeout">>}       \* str(e) of an exception raised by a provider
DbErrors == {<<"unable to open database file">>}   \* str(e) of sqlite3.connect failing
Chars == {" ", "x"}                     \* characters of an LLM summary: blank, non-blank
Items == {<<"a">>, <<"b">>}             \* items of a parsed bullet list
DbOutcomes == {"ok", "sqlerr", "connerr"}

None == [none |-> TRUE]                 \* Python None
Unset == <<"<unset>">>                  \* a text local that holds no value
Whitespace == {" ", "\n"}               \* the characters \s matches in a reply
Markers == {"-", "*", "+", "U+2022"}     \* the bullet markers of the parser
ReplyChars == {"-", " ", "x", "\n"}     \* marker, blank, other character, line end
Null == <<"<NULL>">>                    \* a TEXT column that holds NULL, None once read
TypeError == <<"TypeError: sequence item 4: expected str instance, NoneType found">>

\* all sequences over S of length <= n
RECURSIVE SeqsUpTo(_, _)
SeqsUpTo(S, n) ==
    IF n = 0 THEN {<<>>}
    ELSE LET shorter == SeqsUpTo(S, n - 1)
         IN  shorter \cup {Append(s, c) : s \in {t \in shorter : Len(t) = n - 1}, c \in S}

SummaryStrings == SeqsUpTo(Chars, MaxLen)
ListValues == SeqsUpTo(Items, MaxItems)

\* ------------------------------------------------------- pure functions
\* str.strip(): drop leading and trailing whitespace
RECURSIVE LStrip(_)
LStrip(s) == IF s # <<>> /\ Head(s) = " " THEN LStrip(Tail(s)) ELSE s

RECURSIVE RStrip(_)
RStrip(s) ==
    IF s # <<>> /\ s[Len(s)] = " " THEN RStrip(SubSeq(s, 1, Len(s) - 1)) ELSE s

Strip(s) == RStrip(LStrip(s))

\* str.strip(): blanks and line ends are removed at both ends
RECURSIVE StripWs(_)
StripWs(s) ==
    IF s # <<>> /\ Head(s) \in Whitespace THEN StripWs(Tail(s))
    ELSE IF s # <<>> /\ s[Len(s)] \in Whitespace THEN StripWs(SubSeq(s, 1, Len(s) - 1))
    ELSE s

\* str.split('\n'): the pieces between the line ends, the empty ones too
RECURSIVE Split(_)
Split(s) ==
    IF \A i \in DOMAIN s : s[i] # "\n" THEN <<s>>
    ELSE LET i == CHOOSE k \in DOMAIN s : s[k] = "\n" /\ \A m \in 1..(k - 1) : s[m] # "\n"
         IN  <<SubSeq(s, 1, i - 1)>> \o Split(SubSeq(s, i + 1, Len(s)))

\* re.match(r"^\s*[-*+\u2022]", line)
MatchesBullet(line) ==
    LET rest == StripWs(line) IN rest # <<>> /\ Head(rest) \in Markers

\* re.sub(r"^\s*[-*+\u2022]\s*", "", line).strip() of a line that matches
BulletText(line) ==
    LET rest == StripWs(line) IN StripWs(Tail(rest))

\* mutant: the items that are empty once marker and blanks are removed are kept
parseKeepsEmptyItems(text) ==
    LET RECURSIVE items(_)
        items(lines) ==
            IF lines = <<>> THEN <<>>
            ELSE (IF MatchesBullet(Head(lines)) THEN <<BulletText(Head(lines))>> ELSE <<>>)
                     \o items(Tail(lines))
    IN  items(Split(StripWs(text)))

\* BulletPointOutputParser.parse
parse(text) ==
    LET RECURSIVE items(_)
        items(lines) ==
            IF lines = <<>> THEN <<>>
            ELSE (IF MatchesBullet(Head(lines)) THEN <<BulletText(Head(lines))>> ELSE <<>>)
                     \o items(Tail(lines))
    IN  SelectSeq(items(Split(StripWs(text))), LAMBDA item : item # <<>>)

\* str.lower of a file extension
Lower(ext) ==
    CASE ext = ".WAV" -> ".wav"
      [] ext = ".MP3" -> ".mp3"
      [] ext = ".M4A" -> ".m4a"
      [] OTHER -> ext

\* json.dumps of a string: a quote and a backslash of the content are escaped
\* with a backslash
RECURSIVE Escape(_)
Escape(s) ==
    IF s = <<>> THEN <<>>
    ELSE (IF Head(s) \in {"\"", "\\"} THEN <<"\\", Head(s)>> ELSE <<Head(s)>>)
             \o Escape(Tail(s))

\* mutant: the content is written between the quotes as it is
QuoteRaw(s) == <<"\"">> \o s \o <<"\"">>

\* mutant: the list is stored as str(list), its items between single quotes
QuoteRepr(s) == <<"'">> \o s \o <<"'">>

\* json.dumps of a list of strings: [ "item", "item" ]
Quote(s) == <<"\"">> \o Escape(s) \o <<"\"">>

RECURSIVE JsonItems(_)
JsonItems(l) ==
    IF l = <<>> THEN <<>>
    ELSE IF Len(l) = 1 THEN Quote(Head(l))
    ELSE Quote(Head(l)) \o <<", ">> \o JsonItems(Tail(l))

JsonDumps(l) == <<"[">> \o JsonItems(l) \o <<"]">>

\* json.loads of such a text: the list of the quoted items, in order; a text that
\* is no JSON list raises JSONDecodeError
JSONDecodeError == << <<"JSONDecodeError">> >>

\* the position of the quote that closes the string whose content starts at
\* position i (a backslash escapes the character after it); 0 when there is none
RECURSIVE ClosingQuote(_, _)
ClosingQuote(t, i) ==
    IF i > Len(t) THEN 0
    ELSE IF t[i] = "\"" THEN i
    ELSE IF t[i] = "\\" THEN ClosingQuote(t, i + 2)
    ELSE ClosingQuote(t, i + 1)

RECURSIVE Unescape(_)
Unescape(s) ==
    IF s = <<>> THEN <<>>
    ELSE IF Head(s) = "\\" /\ Len(s) >= 2 THEN <<s[2]>> \o Unescape(Tail(Tail(s)))
    ELSE <<Head(s)>> \o Unescape(Tail(s))

RECURSIVE JsonParseItems(_)
JsonParseItems(t) ==
    IF t = <<>> \/ t[1] # "\"" \/ ClosingQuote(t, 2) = 0
    THEN JSONDecodeError
    ELSE LET k == ClosingQuote(t, 2)
             item == Unescape(SubSeq(t, 2, k - 1))
             rest == SubSeq(t, k + 1, Len(t))
         IN  IF rest = <<>> THEN <<item>>
             ELSE IF rest[1] # ", " THEN JSONDecodeError
             ELSE LET more == JsonParseItems(Tail(rest))
                  IN  IF more = JSONDecodeError THEN JSONDecodeError
                      ELSE <<item>> \o more

JsonLoads(t) ==
    IF Len(t) < 2 \/ t[1] # "[" \/ t[Len(t)] # "]" THEN JSONDecodeError
    ELSE IF Len(t) = 2 THEN <<>>
    ELSE JsonParseItems(SubSeq(t, 2, Len(t) - 1))

\* the word tokens the FTS5 tokenizer indexes for a transcript
Terms(text) == {text[i] : i \in DOMAIN text}


\* -------------------------------------------------------- provider results
\* what the Whisper model does on one call: returns a text or raises
TranscribeOutcomes ==
    [kind : {"ok"}, val : Texts] \cup [kind : {"exc"}, val : ProviderErrors]

\* what one chain's ainvoke yields under gather(return_exceptions=True)
SummaryResults ==
    [kind : {"exc"}, val : ProviderErrors] \cup [kind : {"str"}, val : SummaryStrings]
        \cup {[kind |-> "other", val |-> <<"AIMessage">>]}

ListResults ==
    [kind : {"exc"}, val : ProviderErrors] \cup [kind : {"list"}, val : ListValues]

GatherResults ==
    [summary : SummaryResults, action_items : ListResults, decisions : ListResults]

\* the chain results the background tasks of Spec draw from
TaskResults ==
    {[summary |-> [kind |-> "str", val |-> <<"x">>],
      action_items |-> [kind |-> "list", val |-> << <<"a">> >>],
      decisions |-> [kind |-> "list", val |-> <<>>]],
     [summary |-> [kind |-> "exc", val |-> <<"timeout">>],
      action_items |-> [kind |-> "exc", val |-> <<"timeout">>],
      decisions |-> [kind |-> "list", val |-> << <<"b">> >>]]}

\* items with the characters json.dumps escapes and with the list separator
StoreItems == {<<"a">>, <<"say ", "\"", "no", "\"">>, <<"b", ", ", "\\">>}

StoreLists == SeqsUpTo(StoreItems, MaxItems + 1)

RECURSIVE Reverse(_)
Reverse(l) == IF l = <<>> THEN <<>> ELSE Append(Reverse(Tail(l)), Head(l))

\* the chain results the background tasks of StoreSpec draw from: every list for
\* the action items, the same items in the opposite order for the decisions
StoreResults ==
    {[summary |-> [kind |-> "str", val |-> <<"x">>],
      action_items |-> [kind |-> "list", val |-> l],
      decisions |-> [kind |-> "list", val |-> Reverse(l)]] : l \in StoreLists}

\* mutant: _whisper_model is used without the check that it was loaded, the
\* AttributeError of None.transcribe is caught like any failure of the model
transcribe_audio_unchecked(loaded, o) ==
    IF ~loaded \/ o.kind = "exc"
    THEN [transcript |-> <<"Error during transcription: ">> \o
                            (IF loaded THEN o.val ELSE <<"'NoneType' object has no attribute 'transcribe'">>)]
    ELSE [transcript |-> o.val]

\* asr.transcribe_audio: never raises, the error becomes the transcript
transcribe_audio(loaded, o) ==
    IF ~loaded THEN [transcript |-> <<"Error: ASR model not available.">>]
    ELSE IF o.kind = "exc"
         THEN [transcript |-> <<"Error during transcription: ">> \o o.val]
         ELSE [transcript |-> o.val]

SummaryOf(r) ==
    IF r.kind = "exc" THEN <<"Error: ">> \o r.val
    ELSE IF r.kind = "str" THEN Strip(r.val)
    ELSE <<"Summary generation produced unexpected output type.">>

\* mutant: a failed action-items chain leaves the initial empty list
ActionItemsOfSwallowed(r) ==
    IF r.kind = "list" THEN r.val ELSE <<>>

ActionItemsOf(r) ==
    IF r.kind = "exc" THEN << <<"Error: ">> \o r.val >>
    ELSE IF r.kind = "list" THEN r.val
    ELSE << <<"Action items extraction produced unexpected output type.">> >>

DecisionsOf(r) ==
    IF r.kind = "exc" THEN << <<"Error: ">> \o r.val >>
    ELSE IF r.kind = "list" THEN r.val
    ELSE << <<"Decisions extraction produced unexpected output type.">> >>

\* summarizer.process_transcript: res is the triple gather returned
process_transcript(loaded, transcript, res) ==
    IF ~loaded
    THEN [summary |-> <<"LLM processing disabled.">>,
          action_items |-> <<>>, decisions |-> <<>>]
    ELSE [summary |-> SummaryOf(res.summary),
          action_items |-> ActionItemsOf(res.action_items),
          decisions |-> DecisionsOf(res.decisions)]

\* the except branch of process_audio_task
error_data(e) ==
    [transcript |-> <<"Processing Error: ">> \o e, summary |-> <<"Error">>,
     action_items |-> <<>>, decisions |-> <<>>]

\* ------------------------------------------------------------ the database
HasRow(table, job_id) == \E r \in table : r.job_id = job_id

RowOf(table, job_id) == CHOOSE r \in table : r.job_id = job_id

\* rowid of a new row of a table without AUTOINCREMENT: largest rowid + 1
NextRowid(table) ==
    IF table = {} THEN 1
    ELSE (CHOOSE n \in {r.rowid : r \in table} : \A r \in table : r.rowid <= n) + 1

\* mutant: the DO UPDATE SET list lacks summary=excluded.summary
UpsertKeepsSummary(table, job_id, filename, data, timestamp) ==
    IF HasRow(table, job_id)
    THEN {IF r.job_id = job_id
          THEN [r EXCEPT !.filename = filename,
                         !.transcript = data.transcript,
                         !.action_items = JsonDumps(data.action_items),
                         !.decisions = JsonDumps(data.decisions),
                         !.timestamp = timestamp]
          ELSE r : r \in table}
    ELSE table \cup {[rowid |-> NextRowid(table), job_id |-> job_id,
                      filename |-> filename,
                      transcript |-> data.transcript,
                      summary |-> data.summary,
                      action_items |-> JsonDumps(data.action_items),
                      decisions |-> JsonDumps(data.decisions),
                      timestamp |-> timestamp]}

\* mutant: on conflict the statement updates the rows of every job_id
UpsertAllRows(table, job_id, filename, data, timestamp) ==
    IF HasRow(table, job_id)
    THEN {[r EXCEPT !.transcript = data.transcript,
                    !.summary = data.summary,
                    !.action_items = JsonDumps(data.action_items),
                    !.decisions = JsonDumps(data.decisions),
                    !.timestamp = timestamp] : r \in table}
    ELSE table \cup {[rowid |-> NextRowid(table), job_id |-> job_id,
                      filename |-> filename,
                      transcript |-> data.transcript,
                      summary |-> data.summary,
                      action_items |-> JsonDumps(data.action_items),
                      decisions |-> JsonDumps(data.decisions),
                      timestamp |-> timestamp]}

\* mutant: the update is not one statement in one transaction, a conflicting
\* write is left half done: transcript and summary new, the two lists old
UpsertTornRow(table, job_id, filename, data, timestamp) ==
    IF HasRow(table, job_id)
    THEN {IF r.job_id = job_id
          THEN [r EXCEPT !.filename = filename,
                         !.transcript = data.transcript,
                         !.summary = data.summary]
          ELSE r : r \in table}
    ELSE table \cup {[rowid |-> NextRowid(table), job_id |-> job_id,
                      filename |-> filename,
                      transcript |-> data.transcript,
                      summary |-> data.summary,
                      action_items |-> JsonDumps(data.action_items),
                      decisions |-> JsonDumps(data.decisions),
                      timestamp |-> timestamp]}

\* INSERT ... ON CONFLICT(job_id) DO UPDATE SET ... = excluded. ...
Upsert(table, job_id, filename, data, timestamp) ==
    IF HasRow(table, job_id)
    THEN {IF r.job_id = job_id
          THEN [r EXCEPT !.filename = filename,
                         !.transcript = data.transcript,
                         !.summary = data.summary,
                         !.action_items = JsonDumps(data.action_items),
                         !.decisions = JsonDumps(data.decisions),
                         !.timestamp = timestamp]
          ELSE r : r \in table}
    ELSE table \cup {[rowid |-> NextRowid(table), job_id |-> job_id,
                      filename |-> filename,
                      transcript |-> data.transcript,
                      summary |-> data.summary,
                      action_items |-> JsonDumps(data.action_items),
                      decisions |-> JsonDumps(data.decisions),
                      timestamp |-> timestamp]}

\* trigger meetings_ai: index the transcript of the inserted row
meetings_ai(fts, new) == fts \cup {<<new.rowid, w>> : w \in Terms(new.transcript)}

\* mutant: there is no trigger AFTER UPDATE, the index is left as it was
meetings_au_missing(fts, table, old, new) == fts

\* trigger meetings_au: UPDATE of the external-content FTS5 table. FTS5 removes the
\* tokens it reads from the content table for that rowid (already the new row, the
\* trigger runs AFTER UPDATE) and then adds the tokens of the new transcript.
meetings_au(fts, table, old, new) ==
    LET current == CHOOSE r \in table : r.rowid = old.rowid
    IN  (fts \ {<<old.rowid, w>> : w \in Terms(current.transcript)})
            \cup {<<old.rowid, w>> : w \in Terms(new.transcript)}

\* the index after the upsert statement has run on `table`
IndexAfterUpsert(fts, table, job_id, filename, data, timestamp) ==
    LET after == Upsert(table, job_id, filename, data, timestamp)
        new == RowOf(after, job_id)
    IN  IF HasRow(table, job_id)
        THEN meetings_au(fts, after, RowOf(table, job_id), new)
        ELSE meetings_ai(fts, new)

\* dict(row) with the two JSON columns decoded
Decode(row) ==
    [row EXCEPT !.action_items = JsonLoads(row.action_items),
                !.decisions = JsonLoads(row.decisions)]

\* storage.get_meeting_data; dbFails: the SELECT raises sqlite3.Error
get_meeting_data(table, job_id, dbFails) ==
    IF dbFails THEN None
    ELSE IF HasRow(table, job_id) THEN Decode(RowOf(table, job_id)) ELSE None


\* mutant: ORDER BY timestamp, the oldest write first
RECURSIVE OrderByTimestampAsc(_)
OrderByTimestampAsc(rows) ==
    IF rows = {} THEN <<>>
    ELSE LET first == CHOOSE r \in rows : \A q \in rows : r.timestamp <= q.timestamp
         IN  <<first>> \o OrderByTimestampAsc(rows \ {first})

\* storage.get_all_meeting_data: ORDER BY timestamp DESC
RECURSIVE OrderByTimestampDesc(_)
OrderByTimestampDesc(rows) ==
    IF rows = {} THEN <<>>
    ELSE LET first == CHOOSE r \in rows : \A q \in rows : q.timestamp <= r.timestamp
         IN  <<first>> \o OrderByTimestampDesc(rows \ {first})

get_all_meeting_data(table, dbFails) ==
    IF dbFails THEN <<>>
    ELSE LET sorted == OrderByTimestampDesc(table)
         IN  [i \in DOMAIN sorted |-> Decode(sorted[i])]

\* an FTS5 query string: a bare term matches, "" and a lone quote are syntax errors
MalformedQuery(query) == query \in {"", "\""}

\* storage.search_transcripts: the rows joined to the index entries matching the
\* term (the order by rank is not modelled: the result is the set of rows)
search_transcripts(table, fts, query, dbFails) ==
    IF dbFails \/ MalformedQuery(query) THEN {}
    ELSE {Decode(m) : m \in {r \in table : <<r.rowid, query>> \in fts}}

\* "\n".join(output_lines)
RECURSIVE JoinLines(_)
JoinLines(lines) ==
    IF lines = <<>> THEN <<>>
    ELSE IF Len(lines) = 1 THEN Head(lines)
    ELSE Head(lines) \o <<"\n">> \o JoinLines(Tail(lines))

\* one line "- item" for each item of a list
Bullets(items) == [i \in DOMAIN items |-> <<"- ">> \o items[i]]

\* the text get_txt_export builds from the record of job_id. dict.get(key,
\* default) yields the default only for a missing key: the record has every
\* column as a key, a NULL column is None and "\n".join raises TypeError
TxtExport(job_id, meeting_data) ==
    IF meeting_data.summary = Null \/ meeting_data.transcript = Null THEN TypeError
    ELSE
    JoinLines(
        << <<"Meeting Report - Job ID: ", job_id>>,
           <<"Original File: ">> \o meeting_data.filename,
           <<"Timestamp: ", ToString(meeting_data.timestamp)>>,
           <<"\n==================== SUMMARY ====================\n">>,
           meeting_data.summary >>
        \o (IF meeting_data.action_items # <<>>
            THEN << <<"\n==================== ACTION ITEMS ====================\n">> >>
                     \o Bullets(meeting_data.action_items)
            ELSE <<>>)
        \o (IF meeting_data.decisions # <<>>
            THEN << <<"\n==================== DECISIONS ====================\n">> >>
                     \o Bullets(meeting_data.decisions)
            ELSE <<>>)
        \o << <<"\n==================== TRANSCRIPT ====================\n">>,
               meeting_data.transcript >>)

\* the cells pdf_generator.create_report writes into the report of job_id
PdfReport(job_id, meeting_data, include_transcript) ==
    << <<"Meeting Report">>,
       <<"Job ID: ", job_id>>,
       <<"Original File: ">> \o meeting_data.filename,
       <<"Summary">>,
       meeting_data.summary >>
    \o (IF meeting_data.action_items # <<>>
        THEN << <<"Action Items">> >> \o Bullets(meeting_data.action_items)
        ELSE <<>>)
    \o (IF meeting_data.decisions # <<>>
        THEN << <<"Decisions Made">> >> \o Bullets(meeting_data.decisions)
        ELSE <<>>)
    \o (IF include_transcript
        THEN << <<"Full Transcript">>, meeting_data.transcript >>
        ELSE <<>>)

\* pdf_generator.create_report: the path of the report, or None when the record
\* is not found or writing the PDF raises; pdfOk: fpdf writes the file
create_report(table, job_id, include_transcript, dbFails, pdfOk) ==
    LET meeting_data == get_meeting_data(table, job_id, dbFails)
    IN  IF meeting_data = None \/ ~pdfOk THEN None
        ELSE [path |-> <<"generated_pdfs/meeting_", job_id, "_report.pdf">>,
              cells |-> PdfReport(job_id, meeting_data, include_transcript)]

\* ------------------------------------------------------------------ state
VARIABLES
    whisper_model,   \* asr._whisper_model was loaded at import
    llm,             \* summarizer._llm was loaded at import
    meetings,        \* rows of table meetings
    meetings_fts,    \* entries <<rowid, term>> of the FTS5 index
    uploads,         \* job id -> state of its file in UPLOAD_DIRECTORY
    pc,              \* job id -> position of its upload / background task
    filename,        \* job id -> the filename argument of process_audio_task
    transcript,      \* job id -> local transcript of process_audio_task
    results,         \* job id -> the gather results inside process_transcript
    processed_data,  \* job id -> local processed_data of process_audio_task
    exc,             \* job id -> the exception caught by process_audio_task
    now,             \* datetime.datetime.now(), a counter
    runs,            \* job id -> runs of process_audio_task started so far
    asr_exc,         \* history: what the Whisper call raised in the current run
    chains_invoked,  \* history: the three chains were invoked in the current run
    save_log,        \* history: outcomes of the save_processed_data calls of the run
    reported,        \* history: the last message the task printed about its outcome
    last_commit,     \* history: arguments of the latest committed upsert of the id
    db_read_failed,  \* history: the database read of the request being answered raised
    response         \* the HTTP response of the request handled in the last step

dbVars == <<meetings, meetings_fts>>
taskVars == <<pc, filename, transcript, results, processed_data, exc, runs>>
histVars == <<asr_exc, chains_invoked, save_log, reported, last_commit>>
reqVars == <<response, db_read_failed>>
vars == <<whisper_model, llm, meetings, meetings_fts, uploads, pc, filename, transcript,
          results, processed_data, exc, now, runs, asr_exc, chains_invoked, save_log,
          reported, last_commit, db_read_failed, response>>

NoResponse == [status |-> 0]

Init ==
    /\ whisper_model \in BOOLEAN
    /\ llm \in BOOLEAN
    /\ meetings = {}
    /\ meetings_fts = {}
    /\ uploads = [j \in Jobs |-> "absent"]
    /\ pc = [j \in Jobs |-> "none"]
    /\ filename = [j \in Jobs |-> Unset]
    /\ transcript = [j \in Jobs |-> Unset]
    /\ results = [j \in Jobs |-> None]
    /\ processed_data = [j \in Jobs |-> None]
    /\ exc = [j \in Jobs |-> Unset]
    /\ now = 0
    /\ runs = [j \in Jobs |-> 0]
    /\ asr_exc = [j \in Jobs |-> Unset]
    /\ chains_invoked = [j \in Jobs |-> FALSE]
    /\ save_log = [j \in Jobs |-> <<>>]
    /\ reported = [j \in Jobs |-> "nothing"]
    /\ last_commit = [j \in Jobs |-> None]
    /\ db_read_failed = FALSE
    /\ response = NoResponse


\* ---------------------------------------------------------------- actions
\* mutant: the task is added before the file is written, a failed write leaves
\* it scheduled
upload_audio_task_first(j, ext, ioOk) ==
    IF Lower(ext) \notin ALLOWED_EXTENSIONS
    THEN /\ response = NoResponse
         /\ response' = [status |-> 400]
         /\ UNCHANGED <<whisper_model, llm, dbVars, uploads, taskVars, now, histVars,
                        db_read_failed>>
    ELSE /\ response = NoResponse
         /\ pc[j] = "none"
         /\ pc' = [pc EXCEPT ![j] = "queued"]
         /\ filename' = [filename EXCEPT ![j] = <<j, Lower(ext)>>]
         /\ runs' = [runs EXCEPT ![j] = 1]
         /\ IF ioOk
            THEN /\ uploads' = [uploads EXCEPT ![j] = "complete"]
                 /\ response' = [status |-> 202, job_id |-> j, filename |-> <<j, Lower(ext)>>]
            ELSE /\ \E left \in {"absent", "partial"} :
                        uploads' = [uploads EXCEPT ![j] = left]
                 /\ response' = [status |-> 500]
         /\ UNCHANGED <<whisper_model, llm, dbVars, transcript, results,
                        processed_data, exc, now, histVars, db_read_failed>>

\* mutant: the extension is looked at after the file has been written
upload_audio_checked_late(j, ext, ioOk) ==
    IF Lower(ext) \notin ALLOWED_EXTENSIONS
    THEN /\ response = NoResponse
         /\ pc[j] = "none"
         /\ uploads' = [uploads EXCEPT ![j] = "complete"]
         /\ response' = [status |-> 400]
         /\ UNCHANGED <<whisper_model, llm, dbVars, taskVars, now, histVars,
                        db_read_failed>>
    ELSE /\ response = NoResponse
         /\ pc[j] = "none"
         /\ uploads' = [uploads EXCEPT ![j] = "complete"]
         /\ pc' = [pc EXCEPT ![j] = "queued"]
         /\ filename' = [filename EXCEPT ![j] = <<j, Lower(ext)>>]
         /\ runs' = [runs EXCEPT ![j] = 1]
         /\ response' = [status |-> 202, job_id |-> j, filename |-> <<j, Lower(ext)>>]
         /\ UNCHANGED <<whisper_model, llm, dbVars, transcript, results,
                        processed_data, exc, now, histVars, db_read_failed>>

\* POST /upload/upload-audio with a file of extension ext; j is the uuid4 drawn,
\* ioOk tells whether writing the file to UPLOAD_DIRECTORY succeeds
upload_audio(j, ext, ioOk) ==
    IF Lower(ext) \notin ALLOWED_EXTENSIONS
    THEN /\ response = NoResponse
         /\ response' = [status |-> 400]
         /\ UNCHANGED <<whisper_model, llm, dbVars, uploads, taskVars, now, histVars,
                        db_read_failed>>
    ELSE /\ response = NoResponse
         /\ pc[j] = "none"
         /\ IF ioOk
            THEN /\ uploads' = [uploads EXCEPT ![j] = "complete"]
                 /\ pc' = [pc EXCEPT ![j] = "queued"]
                 /\ filename' = [filename EXCEPT ![j] = <<j, Lower(ext)>>]
                 /\ runs' = [runs EXCEPT ![j] = 1]
                 /\ response' = [status |-> 202, job_id |-> j, filename |-> <<j, Lower(ext)>>]
            ELSE /\ \E left \in {"absent", "partial"} :
                        uploads' = [uploads EXCEPT ![j] = left]
                 /\ pc' = [pc EXCEPT ![j] = "unsaved"]
                 /\ response' = [status |-> 500]
                 /\ UNCHANGED <<filename, runs>>
         /\ UNCHANGED <<whisper_model, llm, dbVars, transcript, results,
                        processed_data, exc, now, histVars, db_read_failed>>

\* process_audio_task, step 1: asr.transcribe_audio(file_path); o is what the
\* Whisper model does when it is called
Transcribe(j, o) ==
    /\ response = NoResponse
    /\ pc[j] = "queued"
    /\ transcript' = [transcript EXCEPT ![j] = transcribe_audio(whisper_model, o).transcript]
    /\ asr_exc' = [asr_exc EXCEPT ![j] =
                       IF whisper_model /\ o.kind = "exc" THEN o.val ELSE Unset]
    /\ pc' = [pc EXCEPT ![j] = "transcribed"]
    /\ UNCHANGED reqVars
    /\ UNCHANGED <<whisper_model, llm, dbVars, uploads, filename, results,
                   processed_data, exc, now, runs, chains_invoked, save_log,
                   reported, last_commit>>

\* mutant: the line processed_data['transcript'] = transcript is missing, the
\* save stores processed_data.get('transcript', '')
ProcessTranscriptWithoutTranscript(j, res) ==
    /\ response = NoResponse
    /\ pc[j] = "transcribed"
    /\ LET data == process_transcript(llm, transcript[j], res)
       IN  processed_data' = [processed_data EXCEPT ![j] =
               [summary |-> data.summary, action_items |-> data.action_items,
                decisions |-> data.decisions, transcript |-> <<>>]]
    /\ results' = [results EXCEPT ![j] =
                       IF llm
                       THEN [summary |-> res.summary, action_items |-> res.action_items,
                             decisions |-> res.decisions, input |-> transcript[j]]
                       ELSE None]
    /\ chains_invoked' = [chains_invoked EXCEPT ![j] = llm]
    /\ pc' = [pc EXCEPT ![j] = "processed"]
    /\ UNCHANGED reqVars
    /\ UNCHANGED <<whisper_model, llm, dbVars, uploads, filename, transcript, exc,
                   now, runs, asr_exc, save_log, reported, last_commit>>

\* process_audio_task, step 2: summarizer.process_transcript(transcript), then
\* processed_data['transcript'] = transcript; res is what the three chains yield,
\* each of them invoked with {"transcript": transcript} (kept as results.input)
ProcessTranscript(j, res) ==
    /\ response = NoResponse
    /\ pc[j] = "transcribed"
    /\ LET data == process_transcript(llm, transcript[j], res)
       IN  processed_data' = [processed_data EXCEPT ![j] =
               [summary |-> data.summary, action_items |-> data.action_items,
                decisions |-> data.decisions, transcript |-> transcript[j]]]
    /\ results' = [results EXCEPT ![j] =
                       IF llm
                       THEN [summary |-> res.summary, action_items |-> res.action_items,
                             decisions |-> res.decisions, input |-> transcript[j]]
                       ELSE None]
    /\ chains_invoked' = [chains_invoked EXCEPT ![j] = llm]
    /\ pc' = [pc EXCEPT ![j] = "processed"]
    /\ UNCHANGED reqVars
    /\ UNCHANGED <<whisper_model, llm, dbVars, uploads, filename, transcript, exc,
                   now, runs, asr_exc, save_log, reported, last_commit>>

\* mutant: conn.commit() is missing, the statement's effect is lost at conn.close()
save_without_commit(j, data, db) ==
    /\ save_log' = [save_log EXCEPT ![j] = Append(@, db)]
    /\ now' = IF db = "connerr" THEN now ELSE now + 1
    /\ UNCHANGED <<meetings, meetings_fts, last_commit>>

\* mutant: the connection is in autocommit mode, the statement stays applied when
\* a later call on the connection raises sqlite3.Error
save_autocommit(j, data, db) ==
    /\ save_log' = [save_log EXCEPT ![j] = Append(@, db)]
    /\ now' = IF db = "connerr" THEN now ELSE now + 1
    /\ IF db \in {"ok", "sqlerr"}
       THEN /\ meetings' = Upsert(meetings, j, filename[j], data, now + 1)
            /\ meetings_fts' =
                   IndexAfterUpsert(meetings_fts, meetings, j, filename[j], data, now + 1)
       ELSE UNCHANGED <<meetings, meetings_fts>>
    /\ IF db = "ok"
       THEN last_commit' = [last_commit EXCEPT ![j] =
                                [filename |-> filename[j], data |-> data]]
       ELSE UNCHANGED last_commit

\* storage.save_processed_data(job_id, filename, data) as one database transaction.
\* db = "connerr": sqlite3.connect raises (outside the try), the call raises e;
\* db = "sqlerr": execute/commit raises sqlite3.Error, rolled back, call returns;
\* db = "ok": the upsert and its trigger are committed.
save_processed_data(j, data, db) ==
    /\ save_log' = [save_log EXCEPT ![j] = Append(@, db)]
    /\ now' = IF db = "connerr" THEN now ELSE now + 1
    /\ IF db = "ok"
       THEN /\ meetings' = Upsert(meetings, j, filename[j], data, now + 1)
            /\ meetings_fts' =
                   IndexAfterUpsert(meetings_fts, meetings, j, filename[j], data, now + 1)
            /\ last_commit' = [last_commit EXCEPT ![j] =
                                   [filename |-> filename[j], data |-> data]]
       ELSE UNCHANGED <<meetings, meetings_fts, last_commit>>

\* mutant: the fallback save sits in a finally block, it also runs after a save
\* that returned
SaveResultsThenFallback(j, db, e) ==
    /\ response = NoResponse
    /\ pc[j] = "processed"
    /\ save_log' = [save_log EXCEPT ![j] = Append(@, db)]
    /\ now' = IF db = "connerr" THEN now ELSE now + 1
    /\ IF db = "ok"
       THEN /\ meetings' = Upsert(meetings, j, filename[j], processed_data[j], now + 1)
            /\ meetings_fts' = IndexAfterUpsert(meetings_fts, meetings, j, filename[j],
                                                processed_data[j], now + 1)
            /\ last_commit' = [last_commit EXCEPT ![j] =
                                   [filename |-> filename[j], data |-> processed_data[j]]]
       ELSE UNCHANGED <<meetings, meetings_fts, last_commit>>
    /\ exc' = [exc EXCEPT ![j] = e]
    /\ pc' = [pc EXCEPT ![j] = "except"]
    /\ reported' = [reported EXCEPT ![j] = "error"]
    /\ results' = [results EXCEPT ![j] = None]
    /\ UNCHANGED <<transcript, processed_data, reqVars>>
    /\ UNCHANGED <<whisper_model, llm, uploads, filename, runs, asr_exc, chains_invoked>>

\* process_audio_task, step 3: the save of the try block, then the task ends, or
\* the except block is entered with the exception e the save raised
SaveResults(j, db, e) ==
    /\ response = NoResponse
    /\ pc[j] = "processed"
    /\ save_processed_data(j, processed_data[j], db)
    /\ IF db = "connerr"
       THEN /\ exc' = [exc EXCEPT ![j] = e]
            /\ pc' = [pc EXCEPT ![j] = "except"]
            /\ reported' = [reported EXCEPT ![j] = "error"]
            /\ UNCHANGED <<transcript, processed_data>>
       ELSE /\ pc' = [pc EXCEPT ![j] = "done"]
            /\ reported' = [reported EXCEPT ![j] = "completed successfully"]
            /\ transcript' = [transcript EXCEPT ![j] = Unset]
            /\ processed_data' = [processed_data EXCEPT ![j] = None]
            /\ UNCHANGED exc
    /\ results' = [results EXCEPT ![j] = None]
    /\ UNCHANGED reqVars
    /\ UNCHANGED <<whisper_model, llm, uploads, filename, runs, asr_exc, chains_invoked>>

\* mutant: the save of error_data also runs after the try block has ended
\* without an exception (it sits in the finally block)
SaveErrorDataInFinally(j, db) ==
    /\ response = NoResponse
    /\ \/ pc[j] = "except"
       \/ pc[j] = "done" /\ Len(save_log[j]) = 1
    /\ save_processed_data(j, error_data(exc[j]), db)
    /\ pc' = [pc EXCEPT ![j] = IF db = "connerr" THEN "raised" ELSE "done"]
    /\ transcript' = [transcript EXCEPT ![j] = Unset]
    /\ processed_data' = [processed_data EXCEPT ![j] = None]
    /\ exc' = [exc EXCEPT ![j] = Unset]
    /\ UNCHANGED reqVars
    /\ UNCHANGED <<whisper_model, llm, uploads, filename, results, runs, asr_exc,
                   chains_invoked, reported>>

\* process_audio_task, except block: save error_data; when this save raises too,
\* the exception leaves the task
SaveErrorData(j, db) ==
    /\ response = NoResponse
    /\ pc[j] = "except"
    /\ save_processed_data(j, error_data(exc[j]), db)
    /\ pc' = [pc EXCEPT ![j] = IF db = "connerr" THEN "raised" ELSE "done"]
    /\ transcript' = [transcript EXCEPT ![j] = Unset]
    /\ processed_data' = [processed_data EXCEPT ![j] = None]
    /\ exc' = [exc EXCEPT ![j] = Unset]
    /\ UNCHANGED reqVars
    /\ UNCHANGED <<whisper_model, llm, uploads, filename, results, runs, asr_exc,
                   chains_invoked, reported>>

\* the retries made so far: the runs after the first one of each job
RECURSIVE RetriesOf(_)
RetriesOf(js) ==
    IF js = {} THEN 0
    ELSE LET j == CHOOSE k \in js : TRUE
         IN  (IF runs[j] > 1 THEN runs[j] - 1 ELSE 0) + RetriesOf(js \ {j})

\* process_audio_task is called again for a job whose task has ended (a manual
\* retry with the same arguments)
Retry(j) ==
    /\ response = NoResponse
    /\ pc[j] \in {"done", "raised"}
    /\ RetriesOf(Jobs) < MaxRetries
    /\ runs' = [runs EXCEPT ![j] = @ + 1]
    /\ pc' = [pc EXCEPT ![j] = "queued"]
    /\ asr_exc' = [asr_exc EXCEPT ![j] = Unset]
    /\ chains_invoked' = [chains_invoked EXCEPT ![j] = FALSE]
    /\ save_log' = [save_log EXCEPT ![j] = <<>>]
    /\ reported' = [reported EXCEPT ![j] = "nothing"]
    /\ UNCHANGED reqVars
    /\ UNCHANGED <<whisper_model, llm, dbVars, uploads, filename, transcript, results,
                   processed_data, exc, now, last_commit>>

\* GET /meetings/json/{job_id}
get_json_export(j, dbFails) ==
    /\ response = NoResponse
    /\ db_read_failed' = dbFails
    /\ LET meeting_data == get_meeting_data(meetings, j, dbFails)
       IN  response' = IF meeting_data = None
                       THEN [status |-> 404, job_id |-> j]
                       ELSE [status |-> 200, job_id |-> j, content |-> meeting_data]
    /\ UNCHANGED <<whisper_model, llm, dbVars, uploads, taskVars, now, histVars>>

\* GET /meetings/summary/{job_id}
get_summary_details(j, dbFails) ==
    /\ response = NoResponse
    /\ db_read_failed' = dbFails
    /\ LET meeting_data == get_meeting_data(meetings, j, dbFails)
       IN  response' = IF meeting_data = None
                       THEN [status |-> 404, job_id |-> j]
                       ELSE [status |-> 200, job_id |-> j,
                             content |-> [job_id |-> j,
                                          summary |-> meeting_data.summary,
                                          action_items |-> meeting_data.action_items,
                                          decisions |-> meeting_data.decisions]]
    /\ UNCHANGED <<whisper_model, llm, dbVars, uploads, taskVars, now, histVars>>

\* GET /meetings/transcript/{job_id}
get_full_transcript(j, dbFails) ==
    /\ response = NoResponse
    /\ db_read_failed' = dbFails
    /\ LET meeting_data == get_meeting_data(meetings, j, dbFails)
       IN  response' = IF meeting_data = None
                       THEN [status |-> 404, job_id |-> j]
                       ELSE [status |-> 200, job_id |-> j,
                             content |-> [job_id |-> j,
                                          transcript |-> meeting_data.transcript]]
    /\ UNCHANGED <<whisper_model, llm, dbVars, uploads, taskVars, now, histVars>>

\* GET /meetings/txt/{job_id}
get_txt_export(j, dbFails) ==
    /\ response = NoResponse
    /\ db_read_failed' = dbFails
    /\ LET meeting_data == get_meeting_data(meetings, j, dbFails)
       IN  response' = IF meeting_data = None
                       THEN [status |-> 404, job_id |-> j]
                       ELSE IF TxtExport(j, meeting_data) = TypeError
                       THEN [status |-> 500, job_id |-> j]
                       ELSE [status |-> 200, job_id |-> j,
                             text |-> TxtExport(j, meeting_data)]
    /\ UNCHANGED <<whisper_model, llm, dbVars, uploads, taskVars, now, histVars>>

\* mutant: a report that was not created is answered with 500 without looking
\* for the record again
get_pdf_report_unchecked(j, include_transcript, dbFails, dbFailsAgain, pdfOk) ==
    /\ response = NoResponse
    /\ db_read_failed' = dbFails
    /\ LET pdf_filepath == create_report(meetings, j, include_transcript, dbFails, pdfOk)
       IN  response' = IF pdf_filepath = None
                       THEN [status |-> 500, job_id |-> j]
                       ELSE [status |-> 200, job_id |-> j, file |-> pdf_filepath]
    /\ UNCHANGED <<whisper_model, llm, dbVars, uploads, taskVars, now, histVars>>

\* GET /meetings/pdf/{job_id}: create_report reads the record; when it returns
\* None the handler reads the record again (no await in between yields to the
\* event loop, both reads see the same table). dbFails, dbFailsAgain: the first,
\* the second SELECT raises sqlite3.Error
get_pdf_report(j, include_transcript, dbFails, dbFailsAgain, pdfOk) ==
    /\ response = NoResponse
    /\ LET pdf_filepath == create_report(meetings, j, include_transcript, dbFails, pdfOk)
           meeting_data == get_meeting_data(meetings, j, dbFailsAgain)
       IN  /\ response' = IF pdf_filepath = None
                           THEN IF meeting_data = None
                                THEN [status |-> 404, job_id |-> j]
                                ELSE [status |-> 500, job_id |-> j]
                           ELSE [status |-> 200, job_id |-> j, file |-> pdf_filepath]
           /\ db_read_failed' = (dbFails \/ (pdf_filepath = None /\ dbFailsAgain))
    /\ UNCHANGED <<whisper_model, llm, dbVars, uploads, taskVars, now, histVars>>

\* GET /meetings/
list_all_meetings(dbFails) ==
    /\ response = NoResponse
    /\ db_read_failed' = dbFails
    /\ response' = [status |-> 200, list |-> get_all_meeting_data(meetings, dbFails)]
    /\ UNCHANGED <<whisper_model, llm, dbVars, uploads, taskVars, now, histVars>>

Queries == {"alpha", "", "\""}

\* GET /meetings/search/?query=...
search_meeting_transcripts(query, dbFails) ==
    /\ response = NoResponse
    /\ db_read_failed' = (dbFails /\ query # "")
    /\ IF query = ""
       THEN response' = [status |-> 422]
       ELSE LET search_results == search_transcripts(meetings, meetings_fts, query, dbFails)
            IN  response' =
                    IF search_results = {}
                    THEN [status |-> 200, results |-> {},
                          message |-> "No matching transcripts found."]
                    ELSE [status |-> 200, query |-> query, results |-> search_results]
    /\ UNCHANGED <<whisper_model, llm, dbVars, uploads, taskVars, now, histVars>>

\* the response is sent to the client; a handler runs to its return without
\* yielding to the event loop, and the background task of an upload starts only
\* after the response of that upload has been sent
SendResponse ==
    /\ response # NoResponse
    /\ response' = NoResponse
    /\ db_read_failed' = FALSE
    /\ UNCHANGED <<whisper_model, llm, dbVars, uploads, taskVars, now, histVars>>

Next ==
    \/ \E j \in Jobs, ext \in Extensions, ioOk \in BOOLEAN : upload_audio(j, ext, ioOk)
    \/ \E j \in Jobs, o \in TranscribeOutcomes : Transcribe(j, o)
    \/ \E j \in Jobs, res \in TaskResults : ProcessTranscript(j, res)
    \/ \E j \in Jobs, db \in DbOutcomes, e \in DbErrors : SaveResults(j, db, e)
    \/ \E j \in Jobs, db \in DbOutcomes : SaveErrorData(j, db)
    \/ \E j \in Jobs : Retry(j)
    \/ \E j \in Jobs, dbFails \in BOOLEAN : get_json_export(j, dbFails)
    \/ \E dbFails \in BOOLEAN : list_all_meetings(dbFails)
    \/ \E query \in Queries, dbFails \in BOOLEAN : search_meeting_transcripts(query, dbFails)
    \/ SendResponse

Spec == Init /\ [][Next]_vars


\* ------------------------------------------------- further specifications
\* the accepted uploads and their background tasks alone (a rejected upload and
\* a read request change nothing but the response), with the scheduling the event
\* loop gives: a pending response is sent, and a started task takes its next step
\* (the providers and the database return or raise in bounded time)
TaskStep(j) ==
    \/ \E o \in TranscribeOutcomes : Transcribe(j, o)
    \/ \E res \in TaskResults : ProcessTranscript(j, res)
    \/ \E db \in DbOutcomes, e \in DbErrors : SaveResults(j, db, e)
    \/ \E db \in DbOutcomes : SaveErrorData(j, db)

TaskNext ==
    \/ \E j \in Jobs, ext \in Extensions \cap ALLOWED_EXTENSIONS, ioOk \in BOOLEAN :
          upload_audio(j, ext, ioOk)
    \/ \E j \in Jobs : TaskStep(j)
    \/ \E j \in Jobs : Retry(j)
    \/ SendResponse

LiveSpec ==
    /\ Init
    /\ [][TaskNext]_vars
    /\ \A j \in Jobs : WF_vars(TaskStep(j))
    /\ WF_vars(SendResponse)

\* the export endpoints beside the uploads and their background tasks
Export(j) ==
    \/ \E dbFails \in BOOLEAN : get_summary_details(j, dbFails)
    \/ \E dbFails \in BOOLEAN : get_full_transcript(j, dbFails)
    \/ \E dbFails \in BOOLEAN : get_json_export(j, dbFails)
    \/ \E dbFails \in BOOLEAN : get_txt_export(j, dbFails)
    \/ \E include_transcript, dbFails, dbFailsAgain, pdfOk \in BOOLEAN :
          get_pdf_report(j, include_transcript, dbFails, dbFailsAgain, pdfOk)

ExportNext ==
    \/ \E j \in Jobs, ext \in Extensions \cap ALLOWED_EXTENSIONS, ioOk \in BOOLEAN :
          upload_audio(j, ext, ioOk)
    \/ \E j \in Jobs : TaskStep(j)
    \/ \E j \in Jobs : Export(j)
    \/ SendResponse

ExportSpec == Init /\ [][ExportNext]_vars

\* list_all beside the accepted uploads, their background tasks and retries,
\* with the scheduling of LiveSpec
ListNext ==
    \/ TaskNext
    \/ \E dbFails \in BOOLEAN : list_all_meetings(dbFails)

ListSpec ==
    /\ Init
    /\ [][ListNext]_vars
    /\ \A j \in Jobs : WF_vars(TaskStep(j))
    /\ WF_vars(SendResponse)

\* search beside the accepted uploads, their background tasks and retries
SearchNext ==
    \/ TaskNext
    \/ \E query \in Queries, dbFails \in BOOLEAN :
          search_meeting_transcripts(query, dbFails)

SearchSpec == Init /\ [][SearchNext]_vars

\* the Record Store under the lists a pipeline can write: one job, its runs and
\* retries, the chain results drawn from StoreResults, and get of its record
StoreNext ==
    \/ \E ext \in Extensions \cap ALLOWED_EXTENSIONS : upload_audio("j1", ext, TRUE)
    \/ \E o \in TranscribeOutcomes : Transcribe("j1", o)
    \/ \E res \in StoreResults : ProcessTranscript("j1", res)
    \/ \E db \in DbOutcomes, e \in DbErrors : SaveResults("j1", db, e)
    \/ \E db \in DbOutcomes : SaveErrorData("j1", db)
    \/ Retry("j1")
    \/ \E dbFails \in BOOLEAN : get_json_export("j1", dbFails)
    \/ SendResponse

StoreSpec == Init /\ [][StoreNext]_vars

\* process_transcript applied to every triple of chain results: job j1 has been
\* uploaded and transcribed, the three chains may yield anything
ExtractInit ==
    /\ whisper_model = TRUE
    /\ llm \in BOOLEAN
    /\ meetings = {}
    /\ meetings_fts = {}
    /\ uploads = [j \in Jobs |-> IF j = "j1" THEN "complete" ELSE "absent"]
    /\ pc = [j \in Jobs |-> IF j = "j1" THEN "transcribed" ELSE "none"]
    /\ filename = [j \in Jobs |-> IF j = "j1" THEN <<j, ".wav">> ELSE Unset]
    /\ \E o \in TranscribeOutcomes :
          /\ transcript = [j \in Jobs |-> IF j = "j1"
                                          THEN transcribe_audio(TRUE, o).transcript
                                          ELSE Unset]
          /\ asr_exc = [j \in Jobs |-> IF j = "j1" /\ o.kind = "exc" THEN o.val ELSE Unset]
    /\ results = [j \in Jobs |-> None]
    /\ processed_data = [j \in Jobs |-> None]
    /\ exc = [j \in Jobs |-> Unset]
    /\ now = 0
    /\ runs = [j \in Jobs |-> IF j = "j1" THEN 1 ELSE 0]
    /\ chains_invoked = [j \in Jobs |-> FALSE]
    /\ save_log = [j \in Jobs |-> <<>>]
    /\ reported = [j \in Jobs |-> "nothing"]
    /\ last_commit = [j \in Jobs |-> None]
    /\ db_read_failed = FALSE
    /\ response = NoResponse

ExtractNext == \E j \in Jobs, res \in GatherResults : ProcessTranscript(j, res)

ExtractSpec == ExtractInit /\ [][ExtractNext]_vars

\* the text export of the records a database file can hold at start-up: init_db
\* keeps an existing table (CREATE TABLE IF NOT EXISTS), whose columns transcript
\* and summary admit NULL; the database holds one row of job j1
StoredRows ==
    {[rowid |-> 1, job_id |-> "j1", filename |-> <<"j1", ".wav">>,
      transcript |-> t, summary |-> sm,
      action_items |-> JsonDumps(a), decisions |-> JsonDumps(d), timestamp |-> 1] :
        t \in Texts \cup {Null}, sm \in {<<"x">>, Null},
        a \in StoreLists, d \in StoreLists}

TxtInit ==
    /\ whisper_model \in BOOLEAN
    /\ llm \in BOOLEAN
    /\ \E row \in StoredRows :
          /\ meetings = {row}
          /\ meetings_fts = IF row.transcript = Null THEN {} ELSE meetings_ai({}, row)
    /\ uploads = [j \in Jobs |-> "absent"]
    /\ pc = [j \in Jobs |-> "none"]
    /\ filename = [j \in Jobs |-> Unset]
    /\ transcript = [j \in Jobs |-> Unset]
    /\ results = [j \in Jobs |-> None]
    /\ processed_data = [j \in Jobs |-> None]
    /\ exc = [j \in Jobs |-> Unset]
    /\ now = 1
    /\ runs = [j \in Jobs |-> 0]
    /\ asr_exc = [j \in Jobs |-> Unset]
    /\ chains_invoked = [j \in Jobs |-> FALSE]
    /\ save_log = [j \in Jobs |-> <<>>]
    /\ reported = [j \in Jobs |-> "nothing"]
    /\ last_commit = [j \in Jobs |-> None]
    /\ db_read_failed = FALSE
    /\ response = NoResponse

TxtNext ==
    \/ \E j \in Jobs, dbFails \in BOOLEAN : get_txt_export(j, dbFails)
    \/ SendResponse

TxtSpec == TxtInit /\ [][TxtNext]_vars

\* the two list chains (prompt | llm | BulletPointOutputParser) applied to every
\* short reply of the LLM and to replies with each of the markers: job j1 has
\* been uploaded and transcribed, the chains yield parse(reply)
Replies ==
    SeqsUpTo(ReplyChars, MaxReply)
        \cup {<<"No action items identified.">>, <<"No decisions identified.">>,
               <<"x", "\n", "-", "\n", "-", "x">>,
               <<"*", " ", "x", "\n", "+", "x", " ", "\n", " ", "U+2022", " ", "x", " ", "x">>,
               <<"x", ":", "\n", "-", " ", "-", "x", "\n", "\n", "1", ".", " ", "x">>}

ParsedResults ==
    {[summary |-> [kind |-> "str", val |-> <<"x">>],
      action_items |-> [kind |-> "list", val |-> parse(reply), reply |-> reply],
      decisions |-> [kind |-> "list", val |-> parse(<<"No decisions identified.">>),
                     reply |-> <<"No decisions identified.">>]] : reply \in Replies}

ParseNext == \E res \in ParsedResults : ProcessTranscript("j1", res)

ParseSpec == ExtractInit /\ [][ParseNext]_vars


\* ------------------------------------------------------------------ claims
Ended(j) == pc[j] \in {"done", "raised"}

InFlight(j) == pc[j] \in {"queued", "transcribed", "processed", "except"}

\* one of the save_processed_data calls of the current run committed
Committed(j) == \E i \in DOMAIN save_log[j] : save_log[j][i] = "ok"

Commits(j) == Cardinality({i \in DOMAIN save_log[j] : save_log[j][i] = "ok"})

\* get(id) while the database is readable
Record(j) == get_meeting_data(meetings, j, FALSE)

C2_RecordExistsWhileProcessing ==
    \A j \in Jobs :
        (InFlight(j) /\ runs[j] = 1 /\ ~Committed(j)) =>
            LET r == Record(j)
            IN  /\ r # None
                /\ "status" \in DOMAIN r
                /\ r.status = "processing"
                /\ r.transcript = <<>> /\ r.summary = <<>>
                /\ r.action_items = <<>> /\ r.decisions = <<>>

\* C3 as claimed: a run in which only a provider failed and whose record write
\* committed leaves a record with status `complete`; a record has status
\* `failed` only when a record write of its run failed.
C3_ProviderFailureYieldsComplete ==
    \A j \in Jobs :
        LET r == Record(j)
        IN  /\ (pc[j] = "done" /\ asr_exc[j] # Unset /\ save_log[j] = <<"ok">>) =>
                   (r # None /\ "status" \in DOMAIN r /\ r.status = "complete")
            /\ (r # None /\ "status" \in DOMAIN r /\ r.status = "failed") =>
                   (\E i \in DOMAIN save_log[j] : save_log[j][i] # "ok")

\* C4 as claimed (with the LLM loaded): when the transcription provider failed in
\* a run whose write committed, the final record's transcript is a diagnostic
\* prefix followed by the error, and summary, action_items and decisions are
\* empty.
C4_TranscriptionFailureRecord ==
    \A j \in Jobs :
        (llm /\ pc[j] = "done" /\ asr_exc[j] # Unset /\ save_log[j] = <<"ok">>) =>
            LET r == Record(j)
            IN  /\ r # None
                /\ Len(r.transcript) = 1 + Len(asr_exc[j])
                /\ Tail(r.transcript) = asr_exc[j]
                /\ r.summary = <<>>
                /\ r.action_items = <<>>
                /\ r.decisions = <<>>

\* C5 as claimed: in a run in which the transcription provider failed, the three
\* extraction chains are never invoked.
C5_NoExtractionAfterTranscriptionFailure ==
    \A j \in Jobs : asr_exc[j] # Unset => ~chains_invoked[j]

\* s is v without its leading and trailing blanks
IsStripped(s, v) ==
    /\ s = <<>> \/ (s[1] # " " /\ s[Len(s)] # " ")
    /\ \E lead \in 0..Len(v) :
          /\ lead + Len(s) <= Len(v)
          /\ SubSeq(v, lead + 1, lead + Len(s)) = s
          /\ \A m \in 1..Len(v) : (m <= lead \/ m > lead + Len(s)) => v[m] = " "

\* a failing chain result is replaced by its placeholder: "Error: <e>" for the
\* summary, the one-element list ["Error: <e>"] for a list field
PlaceholdersForFailures(res, data) ==
    /\ res.summary.kind = "exc" => data.summary = <<"Error: ">> \o res.summary.val
    /\ res.action_items.kind = "exc" =>
           data.action_items = << <<"Error: ">> \o res.action_items.val >>
    /\ res.decisions.kind = "exc" =>
           data.decisions = << <<"Error: ">> \o res.decisions.val >>

\* C6 as claimed: in process_transcript every failing sub-extraction is replaced
\* by its placeholder and every non-failing one keeps exactly the value its
\* chain returned.
C6_NonFailingKeptExactly ==
    \A j \in Jobs :
        (pc[j] = "processed" /\ results[j] # None) =>
            LET res == results[j]
                data == processed_data[j]
            IN  /\ PlaceholdersForFailures(res, data)
                /\ res.summary.kind # "exc" => data.summary = res.summary.val
                /\ res.action_items.kind # "exc" => data.action_items = res.action_items.val
                /\ res.decisions.kind # "exc" => data.decisions = res.decisions.val

\* C6 (amended): in process_transcript every failing sub-extraction is replaced
\* by its placeholder; a non-failing list keeps exactly the value its chain
\* returned; a non-failing summary is the returned string with leading and
\* trailing whitespace removed when the chain returned a string, and the
\* placeholder "Summary generation produced unexpected output type." otherwise.
C6_NonFailingKeptUpToStrip ==
    \A j \in Jobs :
        (pc[j] = "processed" /\ results[j] # None) =>
            LET res == results[j]
                data == processed_data[j]
            IN  /\ PlaceholdersForFailures(res, data)
                /\ res.summary.kind = "str" => IsStripped(data.summary, res.summary.val)
                /\ res.summary.kind = "other" =>
                       data.summary =
                           <<"Summary generation produced unexpected output type.">>
                /\ res.action_items.kind # "exc" => data.action_items = res.action_items.val
                /\ res.decisions.kind # "exc" => data.decisions = res.decisions.val

\* C6 witness: the action-items chain failed, the decisions chain returned a
\* non-empty list and the summary chain returned a string with a leading blank.
C6_Witness ==
    \E j \in Jobs :
        /\ pc[j] = "processed" /\ results[j] # None
        /\ results[j].action_items.kind = "exc"
        /\ results[j].decisions.kind = "list" /\ results[j].decisions.val # <<>>
        /\ results[j].summary.kind = "str"
        /\ Len(results[j].summary.val) = 2 /\ results[j].summary.val[1] = " "
        /\ processed_data[j].summary # <<>>

\* C7 as claimed: every run of process_audio_task that has ended has called
\* save_processed_data exactly once, also on the path through the except block.
C7_ExactlyOneSaveCall == \A j \in Jobs : Ended(j) => Len(save_log[j]) = 1

\* C7 (amended): a run of process_audio_task commits at most one upsert; it calls
\* save_processed_data once when that call returns and a second time, with the
\* error payload, exactly when the first call raised (and so wrote nothing).
C7_AtMostOneCommittedUpsert ==
    \A j \in Jobs :
        /\ Commits(j) <= 1
        /\ Len(save_log[j]) <= 2
        /\ Len(save_log[j]) = 2 => save_log[j][1] = "connerr"
        /\ Ended(j) => (Len(save_log[j]) = 2 <=> save_log[j][1] = "connerr")
        /\ Ended(j) => Len(save_log[j]) >= 1

\* C7 witness: a run has ended through the except block, its second call committed.
C7_Witness == \E j \in Jobs : pc[j] = "done" /\ save_log[j] = <<"connerr", "ok">>

\* C8 as claimed: when the database write inside save_processed_data fails, the
\* task observes the failure and does not report the run as successfully
\* completed.
C8_WriteFailureObserved ==
    \A j \in Jobs :
        (Ended(j) /\ \E i \in DOMAIN save_log[j] : save_log[j][i] = "sqlerr") =>
            reported[j] # "completed successfully"

\* C9 as claimed: when the database read of a request fails while the store
\* holds records, list_all does not answer an empty list, search does not
\* answer an empty result set, and get of an existing id does not answer 404.
C9_ReadFailureNotEmptySuccess ==
    (db_read_failed /\ meetings # {}) =>
        /\ "list" \in DOMAIN response => response.list # <<>>
        /\ "results" \in DOMAIN response => response.results # {}
        /\ response.status = 404 => ~HasRow(meetings, response.job_id)

\* C10: the Record Store holds at most one record per job id, and the record of
\* an id holds exactly the filename, transcript, summary, action_items and
\* decisions of the latest committed upsert of that id (none before any commit).
C10_OneRecordWithLatestPayload ==
    \A j \in Jobs :
        /\ Cardinality({r \in meetings : r.job_id = j}) <= 1
        /\ IF last_commit[j] = None
           THEN Record(j) = None
           ELSE LET r == Record(j)
                    f == last_commit[j]
                IN  /\ r # None
                    /\ r.filename = f.filename
                    /\ r.transcript = f.data.transcript
                    /\ r.summary = f.data.summary
                    /\ r.action_items = f.data.action_items
                    /\ r.decisions = f.data.decisions

\* C10 witness: a second run has overwritten the record of its id: the record
\* holds the payload of the run that just committed, and the index still shows
\* a term of the transcript the earlier upsert had written.
C10_Witness ==
    \E j \in Jobs :
        /\ runs[j] = 2 /\ pc[j] = "done" /\ Committed(j)
        /\ \E r \in meetings :
              /\ r.job_id = j
              /\ r.transcript = last_commit[j].data.transcript
              /\ \E entry \in meetings_fts :
                    entry[1] = r.rowid /\ entry[2] \notin Terms(r.transcript)

\* the payload handed to save_processed_data by the step process_audio_task of
\* job j is about to take
PayloadOf(j) == IF pc[j] = "except" THEN error_data(exc[j]) ELSE processed_data[j]

\* this step is a call of save_processed_data for job j with outcome db
SaveStep(j, db) ==
    /\ Len(save_log'[j]) = Len(save_log[j]) + 1
    /\ save_log'[j][Len(save_log'[j])] = db

\* C11: for every id and every payload f (transcript, summary, ordered
\* action_items, ordered decisions), get(id) right after a committed upsert(id, f)
\* returns exactly the field values of f, the two lists in the same order.
C11_GetAfterUpsertRoundTrip ==
    [][\A j \in Jobs :
          SaveStep(j, "ok") =>
              LET f == PayloadOf(j)
                  r == get_meeting_data(meetings', j, FALSE)
              IN  /\ r # None
                  /\ r.transcript = f.transcript
                  /\ r.summary = f.summary
                  /\ r.action_items = f.action_items
                  /\ r.decisions = f.decisions]_vars

\* C11 witness: a retry has overwritten the record with a payload whose lists
\* hold two different items, one of them with a quote in it, and get returns them
\* in the order written.
C11_Witness ==
    \E j \in Jobs :
        /\ runs[j] = 2 /\ pc[j] = "done" /\ save_log[j] = <<"ok">>
        /\ LET r == Record(j)
           IN  /\ r # None
               /\ Len(r.action_items) = 2
               /\ r.action_items[1] # r.action_items[2]
               /\ \E k \in DOMAIN r.action_items[1] : r.action_items[1][k] = "\""
               /\ r.decisions = <<r.action_items[2], r.action_items[1]>>

\* the ids of the records search(q) returns while the database is readable
SearchIds(q) == {r.job_id : r \in search_transcripts(meetings, meetings_fts, q, FALSE)}

\* the terms the index holds
IndexedTerms == {entry[2] : entry \in meetings_fts}

\* C12: after every committed upsert that writes a transcript for an id (first
\* insert or overwrite of an existing record), a search for a term occurring in
\* that transcript returns a result set containing that id.
C12_CommittedTranscriptIsSearchable ==
    \A j \in Jobs :
        last_commit[j] # None =>
            \A w \in Terms(last_commit[j].data.transcript) : j \in SearchIds(w)

\* C12 witness: a retry has overwritten the diagnostic transcript of a failed
\* transcription with the transcript alpha, and the search for alpha returns
\* the id.
C12_Witness ==
    \E j \in Jobs :
        /\ runs[j] = 2 /\ pc[j] = "done" /\ save_log[j] = <<"ok">>
        /\ last_commit[j].data.transcript = <<"alpha">>
        /\ "timeout" \in {entry[2] : entry \in {x \in meetings_fts :
                                                  x[1] = RowOf(meetings, j).rowid}}
        /\ j \in SearchIds("alpha")

\* C13 as claimed: the Search Index never holds a stale entry: a search for a
\* term returns an id only when the term occurs in the transcript the record of
\* that id holds now, and every index entry belongs to an existing record.
C13_NoStaleIndexEntry ==
    /\ \A w \in IndexedTerms : \A j \in SearchIds(w) :
           w \in Terms(RowOf(meetings, j).transcript)
    /\ \A entry \in meetings_fts : \E r \in meetings : r.rowid = entry[1]

\* C14: a failed upsert changes nothing: when the record write of
\* save_processed_data fails (sqlite3.connect raises, or the statement or the
\* commit raises sqlite3.Error), the record table and the search index are left
\* exactly as they were before the call.
C14_FailedUpsertChangesNothing ==
    [][\A j \in Jobs :
          (SaveStep(j, "sqlerr") \/ SaveStep(j, "connerr")) =>
              (meetings' = meetings /\ meetings_fts' = meetings_fts)]_vars

\* C14 witness: the write of a retry failed with sqlite3.Error while the store
\* held the record of the first run, and the record still holds its payload.
C14_Witness ==
    \E j \in Jobs :
        /\ runs[j] = 2 /\ pc[j] = "done" /\ save_log[j] = <<"sqlerr">>
        /\ last_commit[j] # None
        /\ HasRow(meetings, j)
        /\ Record(j).transcript = last_commit[j].data.transcript

\* l is the sequence of strings the stored column encodes: the column was decoded
WellFormedList(l, column) == l # JSONDecodeError /\ JsonDumps(l) = column

WellFormedRecord(rec) ==
    /\ WellFormedList(rec.action_items, RowOf(meetings, rec.job_id).action_items)
    /\ WellFormedList(rec.decisions, RowOf(meetings, rec.job_id).decisions)

\* C15: for every record returned by get, list_all or search, at any time and
\* for any payload that was upserted, action_items and decisions are sequences
\* of strings (possibly empty), never null and never an undecoded string.
C15_ListsAlwaysDecoded ==
    /\ ("content" \in DOMAIN response /\ response.status = 200) =>
           WellFormedRecord(response.content)
    /\ "list" \in DOMAIN response =>
           \A i \in DOMAIN response.list : WellFormedRecord(response.list[i])
    /\ "results" \in DOMAIN response =>
           \A rec \in response.results : WellFormedRecord(rec)

\* C15 witness: a search has answered with a record whose action_items is a
\* non-empty list while the store also holds a record with empty lists.
C15_Witness ==
    /\ "results" \in DOMAIN response
    /\ \E rec \in response.results : Len(rec.action_items) = 1
    /\ \E j \in Jobs : Record(j) # None /\ Record(j).action_items = <<>>
                                       /\ Record(j).decisions = <<>>

\* the pending response answers an export request for job j
ExportResponse(j) ==
    /\ "job_id" \in DOMAIN response
    /\ response.job_id = j
    /\ response.status # 202

C17_MalformedQueryRejected ==
    [][\A query \in Queries, dbFails \in BOOLEAN :
          (MalformedQuery(query) /\ search_meeting_transcripts(query, dbFails)) =>
              (response'.status \in {400, 422} /\ "results" \notin DOMAIN response')]_vars

\* the records list_all returns while the database is readable
Listed == get_all_meeting_data(meetings, FALSE)

\* in the list, the record of job k stands before the record of job j whenever
\* both are listed
Precedes(k, j) ==
    \A a, b \in DOMAIN Listed :
        (Listed[a].job_id = k /\ Listed[b].job_id = j) => a < b

C19_CreationTimestampKept ==
    [][\A j \in Jobs :
          (HasRow(meetings, j) /\ SaveStep(j, "ok")) =>
              LET old == RowOf(meetings, j)
                  new == RowOf(meetings', j)
              IN  /\ \E c \in {"created_at", "timestamp"} \cap DOMAIN new :
                         new[c] = old[c]
                  /\ \E u \in {"updated_at", "timestamp"} \cap DOMAIN new :
                         new[u] > old[u]]_vars

\* C20 as claimed: an upload whose filename extension is not in the allow-list
\* {.wav, .mp3, .m4a} is rejected with 400 and changes nothing: no job id is
\* returned, no audio file is stored, no task is scheduled, no record written.
C20_ExtensionOutsideListRejected ==
    [][\A j \in Jobs, ext \in Extensions \ ALLOWED_EXTENSIONS, ioOk \in BOOLEAN :
          upload_audio(j, ext, ioOk) =>
              /\ response' = [status |-> 400]
              /\ UNCHANGED <<uploads, pc, filename, runs, meetings, meetings_fts>>]_vars

\* C20 (amended): an upload whose filename extension, lower-cased, is not in the
\* allow-list {.wav, .mp3, .m4a} is rejected with 400 and changes nothing: no job
\* id is returned, no audio file is stored, no task is scheduled and no record
\* is written (an extension such as .WAV is accepted).
C20_LoweredExtensionOutsideListRejected ==
    [][\A j \in Jobs, ext \in Extensions, ioOk \in BOOLEAN :
          (Lower(ext) \notin ALLOWED_EXTENSIONS /\ upload_audio(j, ext, ioOk)) =>
              /\ response' = [status |-> 400]
              /\ UNCHANGED <<uploads, pc, filename, runs, meetings, meetings_fts>>]_vars

\* C20 witness: an upload has been answered with 400 while another job is
\* queued; no file, task or record exists for any other id.
C20_Witness ==
    /\ response = [status |-> 400]
    /\ \E j \in Jobs :
          /\ pc[j] = "queued"
          /\ \A k \in Jobs \ {j} :
                 pc[k] = "none" /\ uploads[k] = "absent" /\ ~HasRow(meetings, k)

\* C21: the pipeline of a job starts only after the audio of that job has been
\* completely written to the upload directory; when writing the audio fails, no
\* pipeline run is scheduled and no job id is returned to the caller; the 202
\* response with the job id is produced before the pipeline of that job has
\* taken a step.
C21_PipelineAfterAudioWritten ==
    /\ \A j \in Jobs :
           /\ (InFlight(j) \/ Ended(j) \/ runs[j] > 0) => uploads[j] = "complete"
           /\ uploads[j] # "complete" =>
                  /\ pc[j] \in {"none", "unsaved"}
                  /\ runs[j] = 0 /\ save_log[j] = <<>> /\ ~HasRow(meetings, j)
           /\ pc[j] = "unsaved" => uploads[j] # "complete"
    /\ "job_id" \in DOMAIN response =>
           /\ response.status = 202
           /\ pc[response.job_id] = "queued"
           /\ runs[response.job_id] = 1
           /\ transcript[response.job_id] = Unset
           /\ save_log[response.job_id] = <<>>
    /\ response.status = 500 => DOMAIN response = {"status"}

\* C21 witness: writing the audio of one upload failed half-way and was answered
\* with 500, and no run was scheduled for it, while the pipeline of the other job
\* has written its record.
C21_Witness ==
    \E j \in Jobs :
        /\ pc[j] = "unsaved" /\ uploads[j] = "partial" /\ response = [status |-> 500]
        /\ \E k \in Jobs \ {j} : pc[k] = "done" /\ HasRow(meetings, k)

\* C22: in every pipeline run the transcription call has returned before the
\* three extraction chains are invoked, the three chains have all finished (with
\* a result or a captured failure) before the record write of the try block
\* starts, and the transcript handed to the chains is the transcript that write
\* stores in the record.
C22_TranscribeThenExtractThenWrite ==
    [][\A j \in Jobs :
          /\ (results[j] = None /\ results'[j] # None) =>
                 /\ pc[j] = "transcribed"
                 /\ transcript[j] # Unset
                 /\ results'[j].input = transcript[j]
                 /\ \A f \in {"summary", "action_items", "decisions"} :
                        results'[j][f].kind \in {"exc", "str", "list", "other"}
          /\ (chains_invoked'[j] /\ ~chains_invoked[j]) => pc[j] = "transcribed"
          /\ \A db \in DbOutcomes :
                 (SaveStep(j, db) /\ pc[j] # "except") =>
                     /\ pc[j] = "processed"
                     /\ chains_invoked[j] = llm
                     /\ llm => (results[j] # None /\ results[j].input = transcript[j])
                     /\ processed_data[j].transcript = transcript[j]
                     /\ db = "ok" =>
                            get_meeting_data(meetings', j, FALSE).transcript = transcript[j]
      ]_vars

\* C22 witness: a run whose chains were invoked has ended with the write of the
\* try block committed, and the record holds the text the model transcribed.
C22_Witness ==
    \E j \in Jobs :
        /\ pc[j] = "done" /\ llm /\ whisper_model /\ chains_invoked[j]
        /\ save_log[j] = <<"ok">>
        /\ Record(j) # None /\ Record(j).transcript \in Texts

\* the rows of the table and the entries of the index that belong to other jobs
\* than j
RowsOfOthers(table, j) == {r \in table : r.job_id # j}

EntriesOfOthers(fts, table, j) ==
    {entry \in fts : \E r \in RowsOfOthers(table, j) : r.rowid = entry[1]}

\* this step is a step of the pipeline run of job j
PipelineStep(j) == pc'[j] # pc[j] /\ pc[j] \in {"queued", "transcribed", "processed", "except"}

\* C23: pipelines of distinct jobs do not interfere in any interleaving: a step
\* of the pipeline of job j leaves the rows, the index entries and the task
\* state of every other job unchanged, the row it writes gets a rowid no other
\* row has, and what it commits is the payload built from the run's own
\* transcript and results.
C23_PipelinesDoNotInterfere ==
    [][\A j \in Jobs :
          PipelineStep(j) =>
              /\ RowsOfOthers(meetings', j) = RowsOfOthers(meetings, j)
              /\ EntriesOfOthers(meetings_fts', meetings', j)
                     = EntriesOfOthers(meetings_fts, meetings, j)
              /\ \A r1, r2 \in meetings' : r1.rowid = r2.rowid => r1 = r2
              /\ \A k \in Jobs \ {j} :
                     /\ pc'[k] = pc[k] /\ transcript'[k] = transcript[k]
                     /\ results'[k] = results[k]
                     /\ processed_data'[k] = processed_data[k]
                     /\ exc'[k] = exc[k] /\ save_log'[k] = save_log[k]
                     /\ last_commit'[k] = last_commit[k]
                     /\ Record(k) = get_meeting_data(meetings', k, FALSE)
              /\ SaveStep(j, "ok") =>
                     LET f == PayloadOf(j)
                         r == get_meeting_data(meetings', j, FALSE)
                     IN  /\ r.filename = filename[j]
                         /\ <<r.transcript, r.summary, r.action_items, r.decisions>>
                                = <<f.transcript, f.summary, f.action_items, f.decisions>>
      ]_vars

\* C23 witness: the re-run of one job has overwritten its record while the
\* pipeline of the other job, whose record is also stored, was in flight in
\* between; the two records differ.
C23_Witness ==
    \E j \in Jobs, k \in Jobs :
        /\ j # k /\ runs[j] = 2 /\ Commits(j) = 1 /\ pc[j] = "done"
        /\ HasRow(meetings, k) /\ pc[k] = "done"
        /\ RowOf(meetings, k).timestamp < RowOf(meetings, j).timestamp
        /\ RowOf(meetings, k).rowid > RowOf(meetings, j).rowid
        /\ Record(j).summary # Record(k).summary

C25_NoExceptionEscapes == \A j \in Jobs : pc[j] # "raised"

\* a stored text, or the placeholder when the stored value is NULL
Shown(value, placeholder) == IF value = Null THEN placeholder ELSE value

\* the lines of the text export in their order: header, summary section, the
\* action-items and decisions sections when their lists are not empty, transcript
\* section
TxtLayout(j, r) ==
    << <<"Meeting Report - Job ID: ", j>>,
       <<"Original File: ">> \o r.filename,
       <<"Timestamp: ", ToString(r.timestamp)>>,
       <<"\n==================== SUMMARY ====================\n">>,
       Shown(r.summary, <<"No summary available.">>) >>
    \o (IF Len(r.action_items) > 0
        THEN << <<"\n==================== ACTION ITEMS ====================\n">> >>
                 \o [i \in 1..Len(r.action_items) |-> <<"- ">> \o r.action_items[i]]
        ELSE <<>>)
    \o (IF Len(r.decisions) > 0
        THEN << <<"\n==================== DECISIONS ====================\n">> >>
                 \o [i \in 1..Len(r.decisions) |-> <<"- ">> \o r.decisions[i]]
        ELSE <<>>)
    \o << <<"\n==================== TRANSCRIPT ====================\n">>,
           Shown(r.transcript, <<"No transcript available.">>) >>

C26_TxtExportLayoutOfText ==
    \A j \in Jobs :
        (ExportResponse(j) /\ ~db_read_failed /\ HasRow(meetings, j)
            /\ Record(j).summary # Null /\ Record(j).transcript # Null) =>
            /\ response.status = 200
            /\ response.text = JoinLines(TxtLayout(j, Record(j)))

\* C27: within one run of process_audio_task the write of the error payload is
\* made only when the write of the try block did not commit (it raised before
\* any statement ran), and a record the try block of a run committed is not
\* written again by that run: it stays as it is until another run starts.
C27_FallbackOnlyWithoutCommit ==
    [][\A j \in Jobs :
          /\ \A db \in DbOutcomes :
                 (SaveStep(j, db) /\ pc[j] # "processed") =>
                     /\ pc[j] = "except"
                     /\ save_log[j] = <<"connerr">>
                     /\ ~Committed(j)
                     /\ db = "ok" => last_commit'[j].data = error_data(exc[j])
          /\ (SaveStep(j, "ok") /\ pc[j] = "processed") => pc'[j] = "done"
          /\ (Committed(j) /\ runs'[j] = runs[j]) =>
                 /\ save_log'[j] = save_log[j]
                 /\ last_commit'[j] = last_commit[j]
                 /\ get_meeting_data(meetings', j, FALSE) = Record(j)
      ]_vars

\* C27 witness: the try block of the second run of a job could not open the
\* database, and the fallback write of that run has replaced the record the
\* first run had committed by the error payload.
C27_Witness ==
    \E j \in Jobs :
        /\ runs[j] = 2 /\ pc[j] = "done" /\ save_log[j] = <<"connerr", "ok">>
        /\ Record(j).summary = <<"Error">>
        /\ RowOf(meetings, j).timestamp >= 2
        /\ \E entry \in meetings_fts :
              entry[1] = RowOf(meetings, j).rowid /\ entry[2] \notin Terms(Record(j).transcript)

\* the record the write of the try block of the ended run of job j committed
CommittedByTry(j) == pc[j] = "done" /\ save_log[j] = <<"ok">>

\* what a run without the providers hands on and stores
UnloadedHandling(j) ==
    /\ (~whisper_model /\ pc[j] \in {"transcribed", "processed", "except"}) =>
           /\ transcript[j] = <<"Error: ASR model not available.">>
           /\ asr_exc[j] = Unset
    /\ (~llm /\ pc[j] \in {"processed", "except"}) =>
           /\ ~chains_invoked[j] /\ results[j] = None
           /\ processed_data[j] =
                  [summary |-> <<"LLM processing disabled.">>, action_items |-> <<>>,
                   decisions |-> <<>>, transcript |-> transcript[j]]
    /\ (~llm /\ CommittedByTry(j)) =>
           /\ Record(j).summary = <<"LLM processing disabled.">>
           /\ Record(j).action_items = <<>> /\ Record(j).decisions = <<>>
           /\ Record(j).transcript \in
                  {transcribe_audio(whisper_model, o).transcript : o \in TranscribeOutcomes}
    /\ (~whisper_model /\ CommittedByTry(j)) =>
           Record(j).transcript = <<"Error: ASR model not available.">>

LineBreaks(text) == {0, Len(text) + 1} \cup {i \in DOMAIN text : text[i] = "\n"}

LineStarts(text) == LineBreaks(text) \ {Len(text) + 1}

LineAt(text, b) ==
    LET e == CHOOSE k \in LineBreaks(text) :
                 k > b /\ \A m \in LineBreaks(text) : m > b => k <= m
    IN  SubSeq(text, b + 1, e - 1)

\* the first character of the line that is not a blank is a marker
BeginsWithMarker(line) ==
    \E i \in DOMAIN line : line[i] \in Markers /\ \A m \in 1..(i - 1) : line[m] = " "

\* the line without leading blanks, the marker, and the blanks around the rest
WithoutMarker(line) ==
    LET i == CHOOSE k \in DOMAIN line : line[k] \in Markers /\ \A m \in 1..(k - 1) : line[m] = " "
    IN  Strip(SubSeq(line, i + 1, Len(line)))

\* the starts of the bulleted lines of the reply whose text is not empty
ItemLines(text) ==
    {b \in LineStarts(text) :
        BeginsWithMarker(LineAt(text, b)) /\ WithoutMarker(LineAt(text, b)) # <<>>}

\* items are, in the order of the reply, the texts of its bulleted lines
ItemsOfReply(items, text) ==
    \E at \in [DOMAIN items -> ItemLines(text)] :
        /\ \A b \in ItemLines(text) : \E i \in DOMAIN items : at[i] = b
        /\ \A i, k \in DOMAIN items : i < k => at[i] < at[k]
        /\ \A i \in DOMAIN items : items[i] = WithoutMarker(LineAt(text, at[i]))

\* C29: BulletPointOutputParser.parse returns, in the order of the reply, the
\* lines that begin (after optional blanks) with one of the markers - * + and
\* the bullet character, each without the marker and the blanks around its text;
\* lines without a marker are dropped and no returned item is empty (a bulleted
\* line with no text is dropped too), so a reply without a bulleted line yields
\* the empty list; the list is what process_transcript returns for the field.
C29_ParseReturnsBulletedLines ==
    \A j \in Jobs :
        (pc[j] = "processed" /\ results[j] # None
            /\ "reply" \in DOMAIN results[j].action_items) =>
            \A f \in {"action_items", "decisions"} :
                LET text == results[j][f].reply
                    items == results[j][f].val
                IN  /\ ItemsOfReply(items, text)
                    /\ \A i \in DOMAIN items :
                           /\ items[i] # <<>>
                           /\ Head(items[i]) # " " /\ items[i][Len(items[i])] # " "
                    /\ (\A b \in LineStarts(text) : ~BeginsWithMarker(LineAt(text, b)))
                           => items = <<>>
                    /\ processed_data[j][f] = items

\* C29 witness: the reply has a line without marker, a bulleted line without
\* text and a bulleted line with text: one item is returned, the text of the
\* last line, while the reply "No decisions identified." gave the empty list.
C29_Witness ==
    /\ pc["j1"] = "processed" /\ results["j1"] # None
    /\ results["j1"].action_items.reply = <<"x", "\n", "-", "\n", "-", "x">>
    /\ processed_data["j1"].action_items = << <<"x">> >>
    /\ processed_data["j1"].decisions = <<>>

====
